---- MODULE Spec2Model ----
(***************************************************************************)
(* Teacher weekly timetable viewer (src/ViewSchedule.py).                  *)
(*                                                                         *)
(* The program is a Streamlit script: the whole file is executed from top  *)
(* to bottom once per request ("run").  What survives from one run to the  *)
(* next is st.session_state and the values of the widgets that the last    *)
(* run rendered.  A button reads True only in the run that its own click   *)
(* triggered.  Every action below is one complete run of the script.       *)
(*                                                                         *)
(* Text is modelled as a sequence of one-character strings, so that        *)
(* lower-casing, stripping, substring search and string ordering are       *)
(* computed the way Python computes them.                                  *)
(***************************************************************************)
EXTENDS Integers, Sequences, FiniteSets, TLC

VARIABLES
    file,           \* the spreadsheet next to the script (read-only)
    session_state,  \* st.session_state: a function on the keys set so far
    name_input,     \* stored value of the text_input widget
    selectbox,      \* stored value of the selectbox widget, or NoValue
    event,          \* the interaction that triggered the last run
    page,           \* what the last run rendered
    displays        \* number of timetables rendered so far in the session

vars == <<file, session_state, name_input, selectbox, event, page, displays>>

-----------------------------------------------------------------------------
(* Program constants                                                       *)

MAX_ATTEMPTS == 5

DEFAULT_PERIOD_COUNT == 9

(* Bounds of the model                                                     *)

MaxRows == 3

MaxCols == 3

-----------------------------------------------------------------------------
(* Text                                                                    *)

\* pandas NaN / Python None: an empty spreadsheet cell.
NaN == <<"<NaN>">>

\* No widget value stored.
NoValue == <<"<none>">>

\* The characters used by the model, in code-point order.
Ascii ==
    << " ", "-", ".",
       "0", "1", "2", "3", "4", "5", "6", "7", "8", "9",
       "A", "B", "C", "D", "E", "F", "G", "H", "I", "J", "K", "L", "M",
       "N", "O", "P", "Q", "R", "S", "T", "U", "V", "W", "X", "Y", "Z",
       "_",
       "a", "b", "c", "d", "e", "f", "g", "h", "i", "j", "k", "l", "m",
       "n", "o", "p", "q", "r", "s", "t", "u", "v", "w", "x", "y", "z" >>

Digits == <<"0", "1", "2", "3", "4", "5", "6", "7", "8", "9">>

UpperCase ==
    << "A", "B", "C", "D", "E", "F", "G", "H", "I", "J", "K", "L", "M",
       "N", "O", "P", "Q", "R", "S", "T", "U", "V", "W", "X", "Y", "Z" >>

LowerCase ==
    << "a", "b", "c", "d", "e", "f", "g", "h", "i", "j", "k", "l", "m",
       "n", "o", "p", "q", "r", "s", "t", "u", "v", "w", "x", "y", "z" >>

Range(s) == {s[i] : i \in DOMAIN s}

IndexOf(c, s) == CHOOSE i \in DOMAIN s : s[i] = c

\* Position of a character in code-point order.
Ord(c) == IndexOf(c, Ascii)

IsDigit(c) == c \in Range(Digits)

DigitValue(c) == IndexOf(c, Digits) - 1

IsSpace(c) == c = " "

\* str.lower() on one character.
LowerChar(c) == IF c \in Range(UpperCase) THEN LowerCase[IndexOf(c, UpperCase)] ELSE c

\* str.lower()
Lower(s) == [i \in DOMAIN s |-> LowerChar(s[i])]

\* str.strip(): drop leading and trailing whitespace.
Strip(s) ==
    LET keep == {i \in DOMAIN s : ~IsSpace(s[i])}
    IN  IF keep = {} THEN <<>>
        ELSE LET lo == CHOOSE i \in keep : \A j \in keep : i <= j
                 hi == CHOOSE i \in keep : \A j \in keep : j <= i
             IN  SubSeq(s, lo, hi)

\* Python's < on str: lexicographic by code point.
StrLess(a, b) ==
    \E i \in 1..(Len(b)) :
        /\ \A j \in 1..(i - 1) : j <= Len(a) /\ a[j] = b[j]
        /\ \/ i = Len(a) + 1
           \/ i <= Len(a) /\ Ord(a[i]) < Ord(b[i])

\* sorted(xs, key=...): a stable sort (each element is inserted before the
\* first element that is strictly greater).  less is the set of the pairs
\* <<x, y>> of elements with key(x) < key(y).
SortedBy(s, less) ==
    LET RECURSIVE Insert(_, _)
        Insert(x, t) ==
            IF t = <<>> THEN <<x>>
            ELSE IF <<x, Head(t)>> \in less THEN <<x>> \o t
            ELSE <<Head(t)>> \o Insert(x, Tail(t))
        RECURSIVE Go(_)
        Go(t) ==
            IF t = <<>> THEN <<>>
            ELSE Insert(t[Len(t)], Go(SubSeq(t, 1, Len(t) - 1)))
    IN  Go(s)

\* The pairs of elements of s ordered by Python's < on str.
StrOrder(s) == {p \in Range(s) \X Range(s) : StrLess(p[1], p[2])}

\* Series.unique(): the distinct values in first-seen order.
RECURSIVE Unique(_)
Unique(s) ==
    IF s = <<>> THEN <<>>
    ELSE LET init == Unique(SubSeq(s, 1, Len(s) - 1))
             x    == s[Len(s)]
         IN  IF x \in Range(init) THEN init ELSE Append(init, x)

\* [x for x in s if x in keep]
RECURSIVE Filter(_, _)
Filter(s, keep) ==
    IF s = <<>> THEN <<>>
    ELSE (IF Head(s) \in keep THEN <<Head(s)>> ELSE <<>>) \o Filter(Tail(s), keep)

-----------------------------------------------------------------------------
(* The spreadsheet                                                         *)

\* One line of the sheet as the school keeps it: a teacher, a day and the
\* text of two period cells.  NaN is an empty cell.
Entry(t, d, a, b) == [tname |-> t, day |-> d, c1 |-> a, c2 |-> b]

Entries ==
    { Entry(<<"A", "b">>,      <<"M", "o", "n">>, <<"M">>, NaN),
      Entry(<<"A", "b">>,      <<"F", "r", "i">>, <<" ">>, <<"M">>),
      Entry(<<"a", "a", "b">>, <<"T", "u", "e">>, <<"S", "k", "i", "l", "l">>, <<"M">>),
      Entry(<<"a", ".", "b">>, <<"M", "o", "n">>, <<"M">>, <<"M">>),
      Entry(NaN,               <<"M", "o", "n">>, <<"M">>, NaN),
      Entry(<<"A", "b">>,      NaN,               <<"M">>, <<"M">>) }

\* The sheets of at most n lines, in every order; no line is repeated.
RECURSIVE Bodies(_)
Bodies(n) ==
    IF n = 0 THEN {<<>>}
    ELSE LET shorter == Bodies(n - 1)
             longest == {x \in shorter : Len(x) = n - 1}
         IN  shorter \cup UNION { {Append(b, e) : e \in Entries \ Range(b)} : b \in longest }

\* A header: for each column of the sheet its title as typed and the part of
\* an entry it holds.
Col(title, field) == [title |-> title, field |-> field]

StandardHeader ==
    << Col(<<" ", "D", "a", "y">>, "day"), Col(<<"T", "n", "a", "m", "e">>, "tname"),
       Col(<<"P", "0">>, "c1"), Col(<<"P", "1">>, "c2") >>

NumericHeader ==
    << Col(<<"t", "n", "a", "m", "e">>, "tname"), Col(<<"d", "a", "y">>, "day"),
       Col(<<"p", "1", "0">>, "c1"), Col(<<"p", "2">>, "c2") >>

LooseHeader ==
    << Col(<<"d", "a", "y">>, "day"), Col(<<"t", "n", "a", "m", "e">>, "tname"),
       Col(<<"p", "_", "1">>, "c1") >>

NoPeriodHeader ==
    << Col(<<"d", "a", "y">>, "day"), Col(<<"t", "n", "a", "m", "e">>, "tname"),
       Col(<<"x", "1">>, "c1") >>

NoDayHeader ==
    << Col(<<"t", "n", "a", "m", "e">>, "tname"), Col(<<"p", "1">>, "c1") >>

\* The file on disk: whether it exists, its header row and its data rows
\* (each row holds one value per column of the header).
Sheet(header, body) ==
    [ exists  |-> TRUE,
      columns |-> [i \in DOMAIN header |-> header[i].title],
      rows    |-> [k \in DOMAIN body |-> [i \in DOMAIN header |-> body[k][header[i].field]]] ]

NoFile == [exists |-> FALSE, columns |-> <<>>, rows |-> <<>>]

Files ==
    {NoFile}
        \cup {Sheet(StandardHeader, b) : b \in Bodies(MaxRows)}
        \cup {Sheet(h, b) : h \in {NumericHeader, LooseHeader, NoPeriodHeader, NoDayHeader},
                            b \in Bodies(1)}

\* What the user can type into the name box.
Queries ==
    { <<>>, <<" ">>, <<"b">>, <<"A", "b">>, <<"a", "b", " ">>, <<"a", "a", "b">>,
      <<"a", ".", "b">>, <<"z", "z">> }

-----------------------------------------------------------------------------
(* Helpers of the script                                                   *)

\* load_timetable returns None when the file does not exist.
None == [exists |-> FALSE, columns |-> <<>>, rows |-> <<>>]

\* load_timetable: read the sheet and normalise the column names
\* (strip, then lower).
load_timetable(f) ==
    IF ~f.exists THEN None
    ELSE [ exists  |-> TRUE,
           columns |-> [i \in DOMAIN f.columns |-> Lower(Strip(f.columns[i]))],
           rows    |-> f.rows ]

\* re.fullmatch(r'p\d+', c)
MatchesStrict(c) ==
    /\ Len(c) >= 2
    /\ c[1] = "p"
    /\ \A i \in 2..Len(c) : IsDigit(c[i])

\* re.match(r'p[_\-\s]?\d+', c): a match at the start of c.
MatchesLoose(c) ==
    /\ Len(c) >= 2
    /\ c[1] = "p"
    /\ \/ IsDigit(c[2])
       \/ c[2] \in {"_", "-", " "} /\ Len(c) >= 3 /\ IsDigit(c[3])

\* int(re.findall(r'\d+', x)[0]): the value of the first run of digits.
FirstNumber(x) ==
    LET start == CHOOSE i \in DOMAIN x :
                     IsDigit(x[i]) /\ \A j \in 1..(i - 1) : ~IsDigit(x[j])
        RECURSIVE Go(_, _)
        Go(i, acc) ==
            IF i > Len(x) \/ ~IsDigit(x[i]) THEN acc
            ELSE Go(i + 1, 10 * acc + DigitValue(x[i]))
    IN  Go(start, 0)

\* [f"p{i}" for i in range(DEFAULT_PERIOD_COUNT)]
DefaultPeriods == [i \in 1..DEFAULT_PERIOD_COUNT |-> <<"p", Digits[i]>>]

PeriodOrderAsText(s) == {p \in Range(s) \X Range(s) : StrLess(p[1], p[2])}

\* key=lambda x: int(re.findall(r'\d+', x)[0])
PeriodOrder(s) == {p \in Range(s) \X Range(s) : FirstNumber(p[1]) < FirstNumber(p[2])}

detect_period_columns(df) ==
    LET cols   == df.columns
        strict == Filter(cols, {c \in Range(cols) : MatchesStrict(c)})
        loose  == Filter(cols, {c \in Range(cols) : MatchesLoose(c)})
        period_cols ==
            IF strict # <<>> THEN strict
            ELSE IF loose # <<>> THEN loose
            ELSE DefaultPeriods
    IN  SortedBy(period_cols, PeriodOrder(period_cols))

\* required_columns = ['day', 'tname'] + expected_periods
required_columns(df) ==
    << <<"d", "a", "y">>, <<"t", "n", "a", "m", "e">> >> \o detect_period_columns(df)

\* missing = [c for c in required_columns if c not in tt.columns]
MissingFirstOnly(df) ==
    LET required == required_columns(df)
        absent   == Filter(required, Range(required) \ Range(df.columns))
    IN  IF absent = <<>> THEN absent ELSE <<absent[1]>>

MissingIdentityOnly(df) ==
    LET identity == << <<"d", "a", "y">>, <<"t", "n", "a", "m", "e">> >>
    IN  Filter(identity, Range(identity) \ Range(df.columns))

MissingColumns(df) ==
    LET required == required_columns(df)
    IN  Filter(required, Range(required) \ Range(df.columns))

\* df[col]: the values of one column, in row order.
Column(df, col) ==
    LET i == IndexOf(col, df.columns)
    IN  [k \in DOMAIN df.rows |-> df.rows[k][i]]

\* r.get(p, None): the cell of row r in column p.
Get(df, r, p) ==
    IF p \in Range(df.columns) THEN r[IndexOf(p, df.columns)] ELSE NaN

\* pd.notna(v)
NotNa(v) == v # NaN

\* [x for x in s if pd.notna(x)]: Series.dropna()
DropNa(s) == Filter(s, {x \in Range(s) : NotNa(x)})

RECURSIVE Sum(_)
Sum(s) == IF s = <<>> THEN 0 ELSE Head(s) + Sum(Tail(s))

\* The cell is counted: pd.notna(v) and str(v).strip() != ""
CellCounts(v) == NotNa(v) /\ Strip(v) # <<>>

DayOf(df, r) == Get(df, r, <<"d", "a", "y">>)

\* rows.groupby('day'): the group keys are the distinct non-null day values in
\* sorted order; rows with a null day belong to no group.
GroupKeys(df, rows) ==
    LET days == Unique(DropNa([k \in DOMAIN rows |-> DayOf(df, rows[k])]))
    IN  SortedBy(days, StrOrder(days))

\* The inner loops of count_periods_for_rows for one group.
DayCount(df, rows, day_name, expected_periods) ==
    Cardinality({ <<k, i>> \in (DOMAIN rows) \X (DOMAIN expected_periods) :
                      /\ DayOf(df, rows[k]) = day_name
                      /\ CellCounts(Get(df, rows[k], expected_periods[i])) })

\* key=lambda x: str(x["day"])
PerDayOrder(s) == {p \in Range(s) \X Range(s) : StrLess(p[1].day, p[2].day)}

\* count_periods_for_rows: (total, per_day_sorted)
count_periods_for_rows(df, rows, expected_periods) ==
    IF rows = <<>> THEN [total |-> 0, per_day |-> <<>>]
    ELSE LET keys    == GroupKeys(df, rows)
             per_day == [g \in DOMAIN keys |->
                            [ day            |-> keys[g],
                              periods_on_day |-> DayCount(df, rows, keys[g], expected_periods) ]]
         IN  [ total   |-> Sum([g \in DOMAIN per_day |-> per_day[g].periods_on_day]),
               per_day |-> SortedBy(per_day, PerDayOrder(per_day)) ]

\* DataFrame.sort_values(by='day') on the rows of the sheet: ascending by the
\* day text, empty days last.  (numpy's quicksort is an insertion sort below 16
\* elements, so rows with equal days keep their order.)
sort_values_by_day(df, rows) ==
    LET Less(r1, r2) ==
            /\ NotNa(DayOf(df, r1))
            /\ \/ ~NotNa(DayOf(df, r2))
               \/ StrLess(DayOf(df, r1), DayOf(df, r2))
    IN  SortedBy(rows, {p \in Range(rows) \X Range(rows) : Less(p[1], p[2])})

\* pd.DataFrame(per_day).sort_values(by='day').reset_index(drop=True)
PerDayTable(per_day) == SortedBy(per_day, PerDayOrder(per_day))

-----------------------------------------------------------------------------
(* Name lookup                                                             *)

\* Series.str.contains(pat): re.search with pat as a regular expression.  Of
\* the characters of the model only '.' is special: it matches any character.
StrContains(text, pat) ==
    \E i \in 0..(Len(text) - Len(pat)) :
        \A j \in 1..Len(pat) : pat[j] = "." \/ pat[j] = text[i + j]

\* mask_exact | mask_contains, for one non-null name.
NameMatches(tname, name_query) ==
    \/ Lower(tname) = Lower(name_query)
    \/ StrContains(Lower(tname), Lower(name_query))

\* tt.loc[mask_exact | mask_contains, 'tname'] raises IndexingError when the
\* index of the mask (the rows with a name) is not the index of tt (all rows).
MaskUnalignable(df) == \E k \in DOMAIN df.rows : ~NotNa(Column(df, <<"t", "n", "a", "m", "e">>)[k])

\* matched_names: the distinct names of the matching rows, first seen first.
MatchedNames(df, name_query) ==
    LET names == DropNa(Column(df, <<"t", "n", "a", "m", "e">>))
    IN  Unique(Filter(names, {t \in Range(names) : NameMatches(t, name_query)}))

\* teachers_all = sorted(tt['tname'].dropna().unique().tolist())
teachers_all(df) ==
    LET names == Unique(DropNa(Column(df, <<"t", "n", "a", "m", "e">>)))
    IN  SortedBy(names, StrOrder(names))

\* tt[tt['tname'].str.lower() == selected_teacher.lower()]
teacher_rows(df, selected_teacher) ==
    LET Mine(r) ==
            LET t == Get(df, r, <<"t", "n", "a", "m", "e">>)
            IN  NotNa(t) /\ Lower(t) = Lower(selected_teacher)
    IN  Filter(df.rows, {r \in Range(df.rows) : Mine(r)})

-----------------------------------------------------------------------------
(* One run of the script                                                   *)

\* Nothing rendered yet.
BlankPage ==
    [ outcome     |-> "Blank",  \* which branch of the script produced the page
      form        |-> FALSE,    \* name box and "View my weekly timetable" button
      picker      |-> FALSE,    \* selectbox and "View selected teacher timetable"
      candidates  |-> <<>>,     \* options of the selectbox
      missing     |-> <<>>,     \* columns named by the schema error
      teacher     |-> NoValue,  \* whose timetable is shown
      rows        |-> <<>>,     \* the timetable rows shown
      total       |-> 0,        \* "Total periods this week"
      per_day     |-> <<>>,     \* "Periods per day" table
      advisory    |-> "none",   \* message shown after the display
      not_found   |-> "none",   \* which "Name not found" message
      footer      |-> FALSE,    \* "Attempts used this session" caption
      used        |-> 0,        \* the count in the caption
      note        |-> 0 ]       \* views left named by the footer warning (0: none)

\* Lines 85-88: set the keys that are not yet in st.session_state.
InitLockedAlways(ss) ==
    [k \in {"successful_views", "locked"} |->
        IF k = "locked" THEN FALSE
        ELSE IF k \in DOMAIN ss THEN ss[k] ELSE 0]

InitSessionState(ss) ==
    [k \in {"successful_views", "locked"} |->
        IF k \in DOMAIN ss THEN ss[k]
        ELSE IF k = "successful_views" THEN 0 ELSE FALSE]

\* A button reads True only in the run triggered by its own click.
Submitted(ev) == ev = "submit"

ConfirmPressed(ev) == ev = "confirm"

\* if st.session_state.locked: ... st.stop()
LockedGateOpen(ss) == FALSE

LockedGate(ss) == ss["locked"]

\* if st.session_state.successful_views >= MAX_ATTEMPTS
QuotaSpent(ss) == ss["successful_views"] >= MAX_ATTEMPTS

\* next_count = st.session_state.successful_views + 1
NextCountTwice(ss) == ss["successful_views"] + 2

NextCountStale(ss) == ss["successful_views"]

NextCount(ss) == ss["successful_views"] + 1

\* views_left_after = MAX_ATTEMPTS - next_count
ViewsLeftBefore(next_count) == MAX_ATTEMPTS - (next_count - 1)

ViewsLeftAfter(next_count) == MAX_ATTEMPTS - next_count

\* The message chosen by the chain of tests on views_left_after.
PostDisplayAdvisory(views_left_after) ==
    IF views_left_after = 2 THEN "approaching-limit"
    ELSE IF views_left_after = 1 THEN "final-attempt"
    ELSE IF views_left_after = 0 THEN "exhausted"
    ELSE "none"

\* st.session_state.locked = True in the views_left_after == 0 branch.
NeverLocks(views_left_after) == FALSE

LocksOneEarly(views_left_after) == views_left_after <= 1

LocksAfterDisplay(views_left_after) == views_left_after = 0

\* The message chosen in the not-found branch.
NotFoundMessage(attempts_left) ==
    IF attempts_left <= 2 /\ attempts_left > 0 THEN "last-chance"
    ELSE IF attempts_left = 0 THEN "locked"
    ELSE "attempts-left"

\* st.session_state.locked = True in the attempts_left == 0 branch.
NotFoundLocksEarly(attempts_left) == attempts_left <= 2

NotFoundLocks(attempts_left) == attempts_left = 0

\* The footer: caption with the used count, and the warning when 1 or 2 views
\* are left.
WithFooterLate(pg, ss) ==
    LET preview_left == MAX_ATTEMPTS - ss["successful_views"]
    IN  [pg EXCEPT !.footer = TRUE,
                   !.used   = ss["successful_views"],
                   !.note   = IF preview_left < 2 /\ preview_left > 0
                              THEN preview_left ELSE 0]

WithFooter(pg, ss) ==
    LET preview_left == MAX_ATTEMPTS - ss["successful_views"]
    IN  [pg EXCEPT !.footer = TRUE,
                   !.used   = ss["successful_views"],
                   !.note   = IF preview_left <= 2 /\ preview_left > 0
                              THEN preview_left ELSE 0]

Result(ss, pg, sel) == [session_state |-> ss, page |-> pg, selectbox |-> sel]

\* The display branch (lines 146-179 and 183-216, which are the same code):
\* show the timetable of selected_teacher and count the view.
Display(df, ss, pg, sel, selected_teacher) ==
    LET rows == teacher_rows(df, selected_teacher)
    IN  IF rows = <<>>
        THEN Result(ss, WithFooter([pg EXCEPT !.outcome = "SelectedNotFound"], ss), sel)
        ELSE LET next_count       == NextCount(ss)
                 views_left_after == ViewsLeftAfter(next_count)
                 sorted_rows      == sort_values_by_day(df, rows)
                 counted          == count_periods_for_rows(df, sorted_rows,
                                                            detect_period_columns(df))
                 counted_ss       == [ss EXCEPT !["successful_views"] = next_count]
                 ss_after         == IF LocksAfterDisplay(views_left_after)
                                     THEN [counted_ss EXCEPT !["locked"] = TRUE]
                                     ELSE counted_ss
                 shown            == [pg EXCEPT
                                         !.outcome  = "Success",
                                         !.teacher  = selected_teacher,
                                         !.rows     = sorted_rows,
                                         !.total    = counted.total,
                                         !.per_day  = PerDayTable(counted.per_day),
                                         !.advisory = PostDisplayAdvisory(views_left_after)]
             IN  Result(ss_after, WithFooter(shown, ss_after), sel)

\* Lines 115-216: the body of "if submitted:".
SubmissionHandling(df, ss, ev, text, sel) ==
    LET pg == [BlankPage EXCEPT !.form = TRUE]
    IN  IF QuotaSpent(ss)
        THEN LET blocked == [ss EXCEPT !["locked"] = TRUE]
             IN  Result(blocked, WithFooter([pg EXCEPT !.outcome = "SubmitBlocked"], blocked),
                        NoValue)
        ELSE LET name_query == Strip(text)
             IN  IF name_query = <<>>
                 THEN Result(ss, WithFooter([pg EXCEPT !.outcome = "EmptyQuery"], ss), NoValue)
                 ELSE IF MaskUnalignable(df)
                 THEN \* uncaught exception: the run ends here, nothing below is rendered
                      Result(ss, [pg EXCEPT !.outcome = "Exception"], NoValue)
                 ELSE LET matched_names == MatchedNames(df, name_query)
                      IN  IF Len(matched_names) = 0
                          THEN LET attempts_left == MAX_ATTEMPTS - ss["successful_views"]
                                   after == IF NotFoundLocks(attempts_left)
                                            THEN [ss EXCEPT !["locked"] = TRUE]
                                            ELSE ss
                               IN  Result(after,
                                          WithFooter([pg EXCEPT
                                                         !.outcome   = "NotFound",
                                                         !.not_found = NotFoundMessage(attempts_left)],
                                                     after),
                                          NoValue)
                          ELSE IF Len(matched_names) > 1
                          THEN LET options == SortedBy(matched_names, StrOrder(matched_names))
                                   selected_teacher ==
                                       IF sel \in Range(options) THEN sel ELSE options[1]
                                   picking == [pg EXCEPT !.picker = TRUE,
                                                         !.candidates = options]
                               IN  IF ConfirmPressed(ev)
                                   THEN Display(df, ss, picking, selected_teacher, selected_teacher)
                                   ELSE Result(ss,
                                               WithFooter([picking EXCEPT !.outcome = "Ambiguous"], ss),
                                               selected_teacher)
                          ELSE Display(df, ss, pg, NoValue, matched_names[1])

\* The whole script, run on the event ev with the stored widget values.
Run(ss, ev, text, sel) ==
    LET tt == load_timetable(file)
    IN  IF tt = None
        THEN Result(ss, [BlankPage EXCEPT !.outcome = "Absent"], NoValue)
        ELSE IF MissingColumns(tt) # <<>>
        THEN Result(ss, [BlankPage EXCEPT !.outcome = "SchemaError",
                                          !.missing = MissingColumns(tt)], NoValue)
        ELSE LET ready == InitSessionState(ss)
             IN  IF LockedGate(ready)
                 THEN Result(ready, [BlankPage EXCEPT !.outcome = "LockedGate"], NoValue)
                 ELSE IF teachers_all(tt) = <<>>
                 THEN Result(ready, [BlankPage EXCEPT !.outcome = "NoTeachers"], NoValue)
                 ELSE IF Submitted(ev)
                 THEN SubmissionHandling(tt, ready, ev, text, sel)
                 ELSE Result(ready,
                             WithFooter([BlankPage EXCEPT !.outcome = "Idle", !.form = TRUE],
                                        ready),
                             NoValue)

-----------------------------------------------------------------------------
(* The session                                                             *)

Init ==
    /\ file \in Files
    /\ session_state = [k \in {} |-> 0]
    /\ name_input = <<>>
    /\ selectbox = NoValue
    /\ event = "none"
    /\ page = BlankPage
    /\ displays = 0

\* The effect of one run triggered by ev, with the name box holding text and
\* the selectbox holding sel.
Request(ev, text, sel) ==
    \E r \in {Run(session_state, ev, text, sel)} :
        /\ session_state' = r.session_state
        /\ page' = r.page
        /\ selectbox' = r.selectbox
        /\ name_input' = IF r.page.form THEN text ELSE <<>>
        /\ event' = ev
        /\ displays' = IF r.page.outcome = "Success" THEN displays + 1 ELSE displays
        /\ UNCHANGED file

\* The browser opens the page, or the script is run again with nothing pressed.
Rerun ==
    \E ev \in {"load"} : Request(ev, name_input, selectbox)

\* The user edits the name box and leaves it.
TypeName ==
    /\ page.form
    /\ \E q \in Queries :
        /\ q # name_input
        /\ Request("text", q, selectbox)

\* The user presses "View my weekly timetable".
Submit ==
    /\ page.form
    /\ Request("submit", name_input, selectbox)

\* The user picks another name in the selectbox.
SelectCandidate ==
    /\ page.picker
    /\ \E c \in Range(page.candidates) :
        /\ c # selectbox
        /\ Request("select", name_input, c)

\* The user presses "View selected teacher timetable".
ConfirmClick ==
    /\ page.picker
    /\ Request("confirm", name_input, selectbox)

Next ==
    \/ Rerun
    \/ TypeName
    \/ Submit
    \/ SelectCandidate
    \/ ConfirmClick

Spec == Init /\ [][Next]_vars

-----------------------------------------------------------------------------
(* Sheets with other headers: the script up to column validation          *)

\* Column titles a sheet may carry.
ColumnPool ==
    { Col(<<" ", "D", "a", "y">>, "day"), Col(<<"T", "n", "a", "m", "e">>, "tname"),
      Col(<<"P", "1">>, "c1"), Col(<<"p", "0", "1">>, "c2"), Col(<<"p", "1", "0">>, "c1"),
      Col(<<"p", "2">>, "c2"), Col(<<"p", "_", "1">>, "c1"), Col(<<"x", "1">>, "c2") }

\* The headers of at most n columns from the pool, in every order.
RECURSIVE Headers(_)
Headers(n) ==
    IF n = 0 THEN {<<>>}
    ELSE LET shorter == Headers(n - 1)
             longest == {x \in shorter : Len(x) = n - 1}
         IN  shorter \cup UNION { {Append(h, c) : c \in ColumnPool \ Range(h)} : h \in longest }

\* One data row under each header, or no file at all.
SchemaFiles ==
    {NoFile}
        \cup { Sheet(h, <<Entry(<<"A", "b">>, <<"M", "o", "n">>, <<"M">>, NaN)>>) :
                   h \in Headers(MaxCols) }

InitSchema ==
    /\ file \in SchemaFiles
    /\ session_state = [k \in {} |-> 0]
    /\ name_input = <<>>
    /\ selectbox = NoValue
    /\ event = "none"
    /\ page = BlankPage
    /\ displays = 0

\* The page is opened (and reloaded): the script runs with nothing pressed.
NextSchema == Rerun

SpecSchema == InitSchema /\ [][NextSchema]_vars

-----------------------------------------------------------------------------
(* Properties                                                              *)

\* The session keys have been set (the script got past column validation).
Initialised == DOMAIN session_state = {"successful_views", "locked"}

Views == session_state["successful_views"]

Locked == session_state["locked"]

\* The pages that reject a request because the quota is spent.
QuotaExhausted == {"LockedGate", "SubmitBlocked"}

\* The sheet as the script sees it.
Table == load_timetable(file)

\* The teacher named in a row of the sheet.
TeacherOf(r) == Get(Table, r, <<"t", "n", "a", "m", "e">>)

\* C1: in every reachable state successful_views, once set, is an integer in
\* 0..MAX_ATTEMPTS, and the session has rendered at most MAX_ATTEMPTS
\* timetables.
C1_ViewsWithinCap ==
    /\ Initialised => Views \in 0..MAX_ATTEMPTS
    /\ displays \in 0..MAX_ATTEMPTS

\* C1 witness: the fifth timetable has just been rendered.
C1_Witness ==
    /\ Initialised
    /\ Views = MAX_ATTEMPTS
    /\ displays = MAX_ATTEMPTS
    /\ page.outcome = "Success"

\* C2: once MAX_ATTEMPTS timetables have been displayed the session is locked,
\* and every later request is rejected as quota-exhausted: it renders no
\* timetable and leaves successful_views at MAX_ATTEMPTS.
C2_RejectedAfterCap ==
    [][ /\ displays' = MAX_ATTEMPTS => session_state'["locked"]
        /\ displays = MAX_ATTEMPTS =>
              /\ page'.outcome \in QuotaExhausted
              /\ page'.rows = <<>>
              /\ page'.teacher = NoValue
              /\ session_state'["successful_views"] = MAX_ATTEMPTS
              /\ displays' = MAX_ATTEMPTS ]_vars

\* C2 witness: a request made after the fifth display was rejected.
C2_Witness ==
    /\ displays = MAX_ATTEMPTS
    /\ event = "load"
    /\ page.outcome = "LockedGate"

\* C3: once locked is true it stays true and successful_views never changes
\* again, whatever the user does.
C3_LockedIsTerminal ==
    [][ (Initialised /\ Locked) =>
            /\ session_state'["locked"]
            /\ session_state'["successful_views"] = Views ]_vars

\* C3 witness: a run in the locked session; the page offers no control at all.
C3_Witness ==
    /\ Initialised
    /\ Locked
    /\ page.outcome = "LockedGate"
    /\ ~page.form
    /\ ~page.picker

\* The advisory that goes with a number of remaining views.
AdvisoryRule ==
    LET remaining == MAX_ATTEMPTS - Views
    IN  /\ remaining >= 0
        /\ remaining = 2 => page.advisory = "approaching-limit"
        /\ remaining = 1 => page.advisory = "final-attempt"
        /\ remaining = 0 => page.advisory = "exhausted" /\ Locked
        /\ remaining > 2 => page.advisory = "none"

\* C4: every successful display shows exactly the advisory determined by
\* remaining = MAX_ATTEMPTS - successful_views after the increment; a display
\* that starts from MAX_ATTEMPTS - 2 views shows the final-attempt advisory.
C4_AdvisoryStaging ==
    [][ /\ page'.outcome = "Success" => AdvisoryRule'
        /\ (Initialised /\ Views = MAX_ATTEMPTS - 2 /\ page'.outcome = "Success") =>
              page'.advisory = "final-attempt" ]_vars

\* C4 witness: the fourth display, with the final-attempt advisory.
C4_Witness ==
    /\ page.outcome = "Success"
    /\ Views = MAX_ATTEMPTS - 1
    /\ page.advisory = "final-attempt"

\* C5: a submission that matches no teacher leaves successful_views and locked
\* as they were, and locked is false.
C5_NotFoundKeepsQuota ==
    [][ page'.outcome = "NotFound" =>
            /\ session_state' = session_state
            /\ ~session_state'["locked"] ]_vars

\* C5 witness: a name was not found with two or fewer views left.
C5_Witness ==
    /\ page.outcome = "NotFound"
    /\ event = "submit"
    /\ page.not_found = "last-chance"
    /\ Views >= MAX_ATTEMPTS - 2

\* C6: successful_views changes only in a step that renders the timetable of
\* exactly one teacher, then by exactly +1; every other step leaves it as it
\* is.
C6_CountsOnlyDisplays ==
    [][ Initialised =>
            /\ (session_state'["successful_views"] # Views) <=> (page'.outcome = "Success")
            /\ session_state'["successful_views"] >= Views
            /\ page'.outcome = "Success" =>
                  /\ session_state'["successful_views"] = Views + 1
                  /\ page'.rows # <<>>
                  /\ \A k \in DOMAIN page'.rows :
                        Lower(TeacherOf(page'.rows[k])) = Lower(page'.teacher)
            /\ page'.outcome # "Success" => page'.rows = <<>> ]_vars

\* C6 witness: the first display of a session, after a submission.
C6_Witness ==
    /\ page.outcome = "Success"
    /\ event = "submit"
    /\ Views = 1
    /\ displays = 1

\* The names of the sheet that a query matches, case-insensitively, by equality
\* or as a plain substring.
PlainContains(text, part) ==
    \E i \in 0..(Len(text) - Len(part)) : SubSeq(text, i + 1, i + Len(part)) = part

PlainMatches(name_query) ==
    { t \in Range(DropNa(Column(Table, <<"t", "n", "a", "m", "e">>))) :
          \/ Lower(t) = Lower(name_query)
          \/ PlainContains(Lower(t), Lower(name_query)) }

\* C7: a submitted, non-empty query that matches more than one distinct teacher name
\* yields the ambiguous outcome listing exactly the matching names, renders no
\* timetable and leaves successful_views and locked unchanged.
C7_AmbiguousListsMatches ==
    [][ ( /\ event' = "submit"
          /\ page'.form
          /\ Strip(name_input') # <<>>
          /\ Cardinality(PlainMatches(Strip(name_input'))) > 1 ) =>
            /\ page'.outcome = "Ambiguous"
            /\ Range(page'.candidates) = PlainMatches(Strip(name_input'))
            /\ page'.rows = <<>>
            /\ session_state' = session_state ]_vars

\* C8: the request triggered by pressing "View selected teacher timetable"
\* displays the selected teacher's timetable and adds one to successful_views.
C8_ConfirmDisplays ==
    [][ event' = "confirm" =>
            /\ page'.outcome = "Success"
            /\ page'.teacher = selectbox
            /\ session_state'["successful_views"] = Views + 1 ]_vars

\* C9: submitting the exact full name of a teacher of the sheet (every name
\* cell of the sheet being filled) resolves to that teacher alone and displays
\* their timetable.
C9_ExactNameResolves ==
    ( /\ event = "submit"
      /\ page.form
      /\ ~MaskUnalignable(Table)
      /\ name_input \in Range(teachers_all(Table)) ) =>
        /\ page.outcome = "Success"
        /\ page.teacher = name_input

\* The weekday names in calendar order and their abbreviations.
CanonicalDays ==
    << {<<"m", "o", "n">>, <<"m", "o", "n", "d", "a", "y">>},
       {<<"t", "u", "e">>, <<"t", "u", "e", "s">>, <<"t", "u", "e", "s", "d", "a", "y">>},
       {<<"w", "e", "d">>, <<"w", "e", "d", "n", "e", "s", "d", "a", "y">>},
       {<<"t", "h", "u">>, <<"t", "h", "u", "r">>, <<"t", "h", "u", "r", "s">>,
        <<"t", "h", "u", "r", "s", "d", "a", "y">>},
       {<<"f", "r", "i">>, <<"f", "r", "i", "d", "a", "y">>},
       {<<"s", "a", "t">>, <<"s", "a", "t", "u", "r", "d", "a", "y">>} >>

\* The canonical weekday index of a raw day label; labels that are no weekday
\* get the index after saturday.
CanonicalDayIndex(label) ==
    LET known == {i \in DOMAIN CanonicalDays : Lower(Strip(label)) \in CanonicalDays[i]}
    IN  IF known = {} THEN Len(CanonicalDays) + 1 ELSE CHOOSE i \in known : TRUE

\* C10: the per-day table of a displayed timetable is ordered by the canonical
\* weekday index of its day labels, unknown labels last.
C10_PerDayInWeekOrder ==
    page.outcome = "Success" =>
        \A i, j \in DOMAIN page.per_day :
            i < j => CanonicalDayIndex(page.per_day[i].day)
                        <= CanonicalDayIndex(page.per_day[j].day)

-----------------------------------------------------------------------------
(* Period counts                                                           *)

\* The columns the script counts: expected_periods (line 77).
ExpectedPeriods == detect_period_columns(Table)

\* The text contains 'skill' in any case.
ContainsSkill(v) == NotNa(v) /\ PlainContains(Lower(v), <<"s", "k", "i", "l", "l">>)

\* A class period by the zeroth-period rule: in column p0 only a cell that
\* contains 'skill'; elsewhere any non-empty cell.
IsClassPeriod(v, column) ==
    /\ NotNa(v)
    /\ Strip(v) # <<>>
    /\ column = <<"p", "0">> => ContainsSkill(v)

\* The class periods of the shown rows whose day is day_name.
ClassPeriodsOn(day_name) ==
    Cardinality({ <<k, i>> \in (DOMAIN page.rows) \X (DOMAIN ExpectedPeriods) :
                      /\ DayOf(Table, page.rows[k]) = day_name
                      /\ IsClassPeriod(Get(Table, page.rows[k], ExpectedPeriods[i]),
                                       ExpectedPeriods[i]) })

\* C11: in the counts shown for a teacher, a non-empty p0 cell without 'skill'
\* is not counted and a p0 cell with 'skill' is counted: every per-day count
\* and the total are the numbers of class periods by the zeroth-period rule.
C11_ZerothPeriodRule ==
    page.outcome = "Success" =>
        /\ \A g \in DOMAIN page.per_day :
              page.per_day[g].periods_on_day = ClassPeriodsOn(page.per_day[g].day)
        /\ page.total =
              Sum([g \in DOMAIN page.per_day |-> ClassPeriodsOn(page.per_day[g].day)])

-----------------------------------------------------------------------------
(* Period columns and column validation                                    *)

\* The column is named p<digits>.
NamedPDigits(c) ==
    /\ Len(c) >= 2
    /\ c[1] = "p"
    /\ \A i \in 2..Len(c) : c[i] \in Range(Digits)

\* Every order of the elements of s.
RECURSIVE Orderings(_)
Orderings(s) ==
    IF s = <<>> THEN {<<>>}
    ELSE UNION { { <<s[i]>> \o p :
                     p \in Orderings(SubSeq(s, 1, i - 1) \o SubSeq(s, i + 1, Len(s))) } :
                 i \in DOMAIN s }

\* The result on the same table with its columns in the order cols.
DetectedIn(cols) == detect_period_columns([Table EXCEPT !.columns = cols])

\* The result is ascending by the numeric value of the digit suffix.
AscendingByNumber(result) ==
    \A i, j \in DOMAIN result : i < j => FirstNumber(result[i]) <= FirstNumber(result[j])

\* C12 as stated: detect_period_columns returns exactly the columns named
\* p<digits>, ascending by the numeric value of the suffix, and returns the
\* same for every permutation of the columns.
C12_ExactlyPDigitsAnyOrder ==
    (event = "load" /\ file.exists) =>
        /\ Range(ExpectedPeriods) = {c \in Range(Table.columns) : NamedPDigits(c)}
        /\ AscendingByNumber(ExpectedPeriods)
        /\ \A cols \in Orderings(Table.columns) : DetectedIn(cols) = ExpectedPeriods

\* C12 amended: when some column is named p<digits>, the result is exactly
\* those columns, each once, ascending by numeric value with columns of equal
\* value in their input order; it is the same for every permutation of the
\* columns when the numeric values are pairwise distinct.
C12_PDigitsSortedNumerically ==
    LET cols   == Table.columns
        named  == {c \in Range(cols) : NamedPDigits(c)}
        result == ExpectedPeriods
    IN  (event = "load" /\ file.exists /\ named # {}) =>
            /\ Range(result) = named
            /\ Len(result) = Cardinality(named)
            /\ AscendingByNumber(result)
            /\ \A i, j \in DOMAIN result :
                  (i < j /\ FirstNumber(result[i]) = FirstNumber(result[j])) =>
                      IndexOf(result[i], cols) < IndexOf(result[j], cols)
            /\ (\A c, d \in named : c # d => FirstNumber(c) # FirstNumber(d)) =>
                  \A other \in Orderings(cols) : DetectedIn(other) = result

\* C12 witness: the script ran on a sheet that lists p10 before p2.
C12_Witness ==
    /\ event = "load"
    /\ file.exists
    /\ \E i, j \in DOMAIN Table.columns :
          /\ i < j
          /\ Table.columns[i] = <<"p", "1", "0">>
          /\ Table.columns[j] = <<"p", "2">>
    /\ ExpectedPeriods = << <<"p", "2">>, <<"p", "1", "0">> >>


-----------------------------------------------------------------------------
(* Halts before the lookup                                                 *)

\* The required columns that the sheet does not have.
RequiredNotPresent ==
    ({<<"d", "a", "y">>, <<"t", "n", "a", "m", "e">>} \cup Range(ExpectedPeriods))
        \ Range(Table.columns)

\* The page of a run that stopped before the form: nothing of the lookup or of
\* a timetable is on it.
NothingRendered(pg) ==
    /\ ~pg.form /\ ~pg.picker /\ ~pg.footer
    /\ pg.teacher = NoValue /\ pg.rows = <<>> /\ pg.per_day = <<>>
    /\ pg.candidates = <<>>

\* C13: a run on an absent sheet, or on a sheet that lacks 'day', 'tname' or a
\* detected period column, stops before the lookup: the schema error names
\* exactly the required columns that the sheet does not have (each once), no
\* form and no timetable is rendered, and st.session_state is left as the run
\* found it (its keys are not even set). A sheet lacking nothing is not stopped
\* by these two gates.
C13_HaltsBeforeLookup ==
    [][ /\ ~file.exists =>
            /\ page'.outcome = "Absent"
            /\ page'.missing = <<>>
            /\ NothingRendered(page')
            /\ session_state' = session_state
        /\ (file.exists /\ RequiredNotPresent # {}) =>
            /\ page'.outcome = "SchemaError"
            /\ Range(page'.missing) = RequiredNotPresent
            /\ Len(page'.missing) = Cardinality(RequiredNotPresent)
            /\ NothingRendered(page')
            /\ session_state' = session_state
        /\ (file.exists /\ RequiredNotPresent = {}) =>
            page'.outcome \notin {"Absent", "SchemaError"}
      ]_vars

\* A sheet with a period column p2 but neither 'day' nor 'tname' was stopped
\* with both names in the schema error.
C13_Witness ==
    /\ event = "load"
    /\ file.exists
    /\ <<"p", "2">> \in Range(file.columns)
    /\ page.outcome = "SchemaError"
    /\ Range(page.missing) = {<<"d", "a", "y">>, <<"t", "n", "a", "m", "e">>}
    /\ DOMAIN session_state = {}

-----------------------------------------------------------------------------
(* The footer                                                              *)

\* Views that the session may still display.
Remaining == MAX_ATTEMPTS - Views

\* The pages of runs that ended in st.stop() before the form, or in the
\* uncaught exception of the name lookup.
HaltedOutcomes == {"Absent", "SchemaError", "LockedGate", "NoTeachers", "Exception"}

\* What the footer must read in the current state.
FooterReads ==
    /\ page.footer
    /\ page.used = Views
    /\ page.used = displays
    /\ page.note = (IF Remaining \in {1, 2} THEN Remaining ELSE 0)

-----------------------------------------------------------------------------
(* Order of the displayed rows                                             *)

\* The position in the sheet of a row (the lines of a sheet are distinct).
RowPosition(r) == IndexOf(r, Table.rows)

\* C15: the rows displayed for a teacher are that teacher's rows, ascending by
\* (canonical weekday index of the day, position in the sheet), so that rows
\* whose day is no weekday come last in their sheet order.
C15_RowsInWeekOrder ==
    page.outcome = "Success" =>
        /\ Range(page.rows) = Range(teacher_rows(Table, page.teacher))
        /\ \A i, j \in DOMAIN page.rows :
               i < j =>
                   LET di == CanonicalDayIndex(DayOf(Table, page.rows[i]))
                       dj == CanonicalDayIndex(DayOf(Table, page.rows[j]))
                   IN  \/ di < dj
                       \/ di = dj /\ RowPosition(page.rows[i]) < RowPosition(page.rows[j])

-----------------------------------------------------------------------------
(* Aggregation over all rows                                               *)

\* The countable cells of the shown rows: every row, every period column.
CountableCells ==
    { <<k, i>> \in (DOMAIN page.rows) \X (DOMAIN ExpectedPeriods) :
          CellCounts(Get(Table, page.rows[k], ExpectedPeriods[i])) }

\* The raw day labels of the shown rows.
RawDayLabels == { DayOf(Table, page.rows[k]) : k \in DOMAIN page.rows } \ {NaN}

\* C16: the aggregation shown for a teacher has one per-day entry for each
\* distinct raw day label of the rows, and its total is both the sum of the
\* per-day counts and the number of countable cells over every row and every
\* period column, rows without a day included.
C16_TotalCoversEveryRow ==
    page.outcome = "Success" =>
        /\ { page.per_day[g].day : g \in DOMAIN page.per_day } = RawDayLabels
        /\ Len(page.per_day) = Cardinality(RawDayLabels)
        /\ page.total = Sum([g \in DOMAIN page.per_day |-> page.per_day[g].periods_on_day])
        /\ page.total = Cardinality(CountableCells)

-----------------------------------------------------------------------------
(* The lock and the counter                                                *)

\* C17: after every run of a session that has its quota state, locked is true
\* exactly when successful_views = MAX_ATTEMPTS: no state has the counter at
\* the cap with the session unlocked, nor the session locked below the cap.
C17_LockedIffAtCap ==
    (event # "none" /\ Initialised) => (Locked <=> Views = MAX_ATTEMPTS)

\* The display that brought the counter to the cap locked the session in the
\* same run.
C17_Witness ==
    /\ event = "submit"
    /\ Initialised
    /\ page.outcome = "Success"
    /\ page.advisory = "exhausted"
    /\ Locked
    /\ Views = MAX_ATTEMPTS

-----------------------------------------------------------------------------
(* The branches behind the locked gate                                     *)

\* The pages that only the body of "if submitted:" renders.
HandlerOutcomes ==
    {"SubmitBlocked", "EmptyQuery", "Exception", "NotFound", "Ambiguous", "Success",
     "SelectedNotFound"}

\* C18: the body of "if submitted:" is never run with successful_views at or
\* above MAX_ATTEMPTS, because the locked gate stops such a run first: the
\* rejection inside the handler and the not-found message for no attempts left
\* are never rendered, and neither of them ever sets locked.
C18_HandlerBelowCap ==
    [][ /\ page'.outcome \in HandlerOutcomes =>
              /\ event' = "submit"
              /\ Initialised
              /\ Views < MAX_ATTEMPTS
              /\ ~Locked
        /\ page'.outcome # "SubmitBlocked"
        /\ page'.not_found # "locked"
        /\ (Initialised /\ (Locked \/ Views >= MAX_ATTEMPTS)) =>
              page'.outcome = "LockedGate"
      ]_vars

\* The handler ran with one view left and reported a name that was not found.
C18_Witness ==
    /\ event = "submit"
    /\ Initialised
    /\ Views = MAX_ATTEMPTS - 1
    /\ ~Locked
    /\ page.outcome = "NotFound"
    /\ page.not_found = "last-chance"

-----------------------------------------------------------------------------
(* The fallback period columns                                             *)

\* detect_period_columns takes the fixed fallback: no column of the sheet
\* matches the strict or the loose period pattern.
FallbackTaken ==
    /\ file.exists
    /\ \A c \in Range(Table.columns) : ~MatchesStrict(c) /\ ~MatchesLoose(c)

\* C19: when detect_period_columns takes the fixed fallback p0..p8, the column
\* validation that follows stops the run with a schema error that names all
\* nine fallback columns, so the lookup form is never shown with fallback
\* period columns.
C19_FallbackNeverPasses ==
    (event # "none" /\ FallbackTaken) =>
        /\ ExpectedPeriods = DefaultPeriods
        /\ Len(DefaultPeriods) = DEFAULT_PERIOD_COUNT
        /\ page.outcome = "SchemaError"
        /\ \A i \in DOMAIN DefaultPeriods :
               Cardinality({k \in DOMAIN page.missing : page.missing[k] = DefaultPeriods[i]}) = 1
        /\ ~page.form
        /\ ~page.footer
        /\ DOMAIN session_state = {}

\* A sheet with 'day' and 'tname' and one more column that is no period
\* column was stopped with exactly p0..p8 reported missing.
C19_Witness ==
    /\ event = "load"
    /\ FallbackTaken
    /\ {<<"d", "a", "y">>, <<"t", "n", "a", "m", "e">>, <<"x", "1">>} = Range(Table.columns)
    /\ page.outcome = "SchemaError"
    /\ page.missing = DefaultPeriods
=============================================================================
